---- MODULE Spec2Model ----
(***************************************************************************)
(* search_code: directory walker with ignore list, extension gate, the two *)
(* search strategies (find_key_file, get_symbols) and the merge of their   *)
(* per-file results, as written in src/src/main.rs and                     *)
(* src/src/Options/mod.rs.                                                 *)
(*                                                                         *)
(* A string is a sequence of tokens.  A token is the character ".", the    *)
(* character "/", or a word: a non-empty run of characters holding neither *)
(* "." nor "/".  No string of the model has two adjacent words, so two     *)
(* strings are equal exactly when their token sequences are equal, and     *)
(* split('.'), starts_with("./") and is_relative() act on tokens as they   *)
(* act on characters.  File contents are sequences of single characters.   *)
(***************************************************************************)
EXTENDS Integers, Sequences, FiniteSets, TLC

VARIABLES
    fs,             \* the file system under args.path: [kind, nodes]
    args,           \* CommandArgs: [path, lang, is_symbol, ignore]
    dir_and_files,  \* IgnoreDir.dir_and_files
    lang,           \* SearchCode.lang (= SpecifyParser.lang)
    pathes,         \* SearchCode.pathes
    stack,          \* the active scan_dir calls that iterate a read_dir
    idx,            \* position of walk_dir's for loop in pathes (1-based)
    found,          \* walk_dir's local `found`, then the printed result
    pc,             \* where main is
    calls,          \* history: every (op, path) handed to a strategy
    skipped,        \* history: the paths the extension gate skipped
    read_dirs,      \* history: the directories read_dir was called on
    api_ops,        \* IgnoreDir API: the operations applied so far
    content,        \* line search: the bytes of the file
    key,            \* line search: the key
    ls,             \* line search: the value find_key_file returned
    acc,            \* merge: the accumulator map
    partial         \* merge: the partial result

vars == <<fs, args, dir_and_files, lang, pathes, stack, idx, found, pc,
          calls, skipped, read_dirs, api_ops, content, key, ls, acc, partial>>

mainVars  == <<fs, args, lang, pathes, stack, idx, found, calls, skipped, read_dirs>>
ignVars   == <<api_ops>>
lineVars  == <<content, key, ls>>
mergeVars == <<acc, partial>>

(***************************************************************************)
(* Bounds of the model.                                                    *)
(***************************************************************************)
MaxNodes == 5
MaxContentLen == 4
MaxKeyLen == 2
MaxEntries == 2
MaxApiOps == 4
MaxMatches == 2

(***************************************************************************)
(* Strings.                                                                *)
(***************************************************************************)
Dot == "."
Slash == "/"
DotSlash == <<".", "/">>

EmptyMap == [x \in {} |-> <<>>]

SeqsUpTo(S, n) == UNION {[1..m -> S] : m \in 0..n}

Max(S) == CHOOSE x \in S : \A y \in S : y <= x

starts_with(v, prefix) ==
    /\ Len(v) >= Len(prefix)
    /\ SubSeq(v, 1, Len(prefix)) = prefix

\* std::path::Path::is_relative on a Unix path: it has no root.
is_relative(v) == ~(Len(v) >= 1 /\ v[1] = Slash)

\* PathBuf::push as used by DirEntry::path(): a separator is added unless
\* the base is empty or already ends with one.
Join(base, name) ==
    IF Len(base) = 0 \/ base[Len(base)] = Slash
    THEN base \o name
    ELSE base \o <<Slash>> \o name

\* path.split('.').last().unwrap()
LastDotSegment(path) ==
    LET dots == {i \in 1..Len(path) : path[i] = Dot}
    IN  IF dots = {} THEN path ELSE SubSeq(path, Max(dots) + 1, Len(path))

(***************************************************************************)
(* Options: Lang and its tables.                                           *)
(***************************************************************************)
Langs == {"C", "Cpp", "Python", "Rust", "Any"}

LangIds == {"c", "cpp", "py", "rs", "any"}

obtain_lang(s) ==
    CASE s \in {"c", "cpp", "cc", "cxx"} -> "Cpp"
      [] s \in {"python", "Python", "py"} -> "Python"
      [] s \in {"rust", "rs"} -> "Rust"
      [] OTHER -> "Any"

CPP_EXTENSIONS == << <<"cpp">>, <<"c">>, <<"cc">>, <<"cxx">> >>
RUST_EXTENSIONS == << <<"rs">>, <<"rust">> >>
PYTHON_EXTENSIONS == << <<"py">> >>

valid_extensions(l) ==
    CASE l \in {"Cpp", "C"} -> CPP_EXTENSIONS
      [] l = "Python" -> PYTHON_EXTENSIONS
      [] l = "Rust" -> RUST_EXTENSIONS
      [] OTHER -> <<>>

\* Vec::contains
contains(v, x) == \E i \in 1..Len(v) : v[i] = x

\* Ok(grammar) for C, Cpp, Python and Rust; Err(Lang::Any) otherwise.
into_treesitter_language(l) == l \in {"Cpp", "C", "Python", "Rust"}

(***************************************************************************)
(* Options: IgnoreDir.                                                     *)
(***************************************************************************)
GitNames == << <<".", "git">>, <<".", "gitignore">>, <<".", "gitattributes">> >>

set_ignores(old, new) == new

ignore_git(v) == v \o GitNames

\* the test with "." in place of "./"
NeedsDotSlashWrong(v) == is_relative(v) /\ ~starts_with(v, <<Dot>>)

\* Path::new(v).is_relative() && !v.starts_with("./")
NeedsDotSlash(v) == is_relative(v) /\ ~starts_with(v, DotSlash)

relative_dir_fix(v) ==
    [i \in 1..Len(v) |-> IF NeedsDotSlash(v[i]) THEN DotSlash \o v[i] ELSE v[i]]

\* a match of any entry as a prefix instead of the whole string
is_ignore_prefix(dir) ==
    \E i \in 1..Len(dir_and_files) : starts_with(dir, dir_and_files[i])

\* self.dir_and_files.contains(&dir.to_string())
is_ignore(dir) == contains(dir_and_files, dir)

(***************************************************************************)
(* Search strategies.  A strategy returns [kind, map]: kind is "Ok", "Err" *)
(* (an io::Error returned to the caller) or "panic"; map is the FindLines  *)
(* value, a function from filenames to sequences of <<line number, text>>. *)
(***************************************************************************)
NL == "\n"
CR == "\r"
\* a byte that is not valid UTF-8
BAD == "0xFF"

Range(q) == {q[i] : i \in 1..Len(q)}

\* BufRead::read_until(b'\n'): the bytes up to and including the first
\* newline, or all of them when there is none.
ChunkLen(b) ==
    LET nls == {i \in 1..Len(b) : b[i] = NL}
    IN  IF nls = {} THEN Len(b) ELSE CHOOSE i \in nls : \A j \in nls : i <= j

\* BufRead::lines: the newline is dropped, and a carriage return before it.
StripEol(chunk) ==
    IF Len(chunk) >= 1 /\ chunk[Len(chunk)] = NL
    THEN LET t == SubSeq(chunk, 1, Len(chunk) - 1)
         IN  IF Len(t) >= 1 /\ t[Len(t)] = CR THEN SubSeq(t, 1, Len(t) - 1) ELSE t
    ELSE chunk

\* str::contains with a &str pattern
str_contains(line, k) ==
    \E o \in 0..(Len(line) - Len(k)) : SubSeq(line, o + 1, o + Len(k)) = k

\* the line number without the + 1
LineNoZeroBased(line_number) == line_number

\* line_number + 1, line_number the index enumerate() gives
LineNo(line_number) == line_number + 1

\* the for loop of find_key_file over reader.lines().enumerate()
RECURSIVE find_key_lines(_, _, _, _)
find_key_lines(b, k, line_number, v) ==
    IF b = <<>> THEN [kind |-> "Ok", v |-> v]
    ELSE LET n == ChunkLen(b)
             chunk == SubSeq(b, 1, n)
             rest == SubSeq(b, n + 1, Len(b))
         IN  IF BAD \in Range(chunk) THEN [kind |-> "Err", v |-> <<>>]
             ELSE LET line == StripEol(chunk)
                  IN  find_key_lines(rest, k, line_number + 1,
                          IF str_contains(line, k)
                          THEN Append(v, <<LineNo(line_number), line>>)
                          ELSE v)

MapOf(filename, v) == IF v = <<>> THEN EmptyMap ELSE [x \in {filename} |-> v]

find_key_file(filename, k, file) ==
    IF ~file.readable THEN [kind |-> "Err", map |-> EmptyMap]
    ELSE LET r == find_key_lines(file.bytes, k, 0, <<>>)
         IN  [kind |-> r.kind, map |-> MapOf(filename, r.v)]

\* engine: what the syntax engine does with the file and the queries:
\* [fails, captures], captures a sequence of [row, text] in the order the
\* queries yield them.
get_symbols(filename, k, parser_lang, file, engine) ==
    IF ~file.readable \/ BAD \in Range(file.bytes)
        THEN [kind |-> "panic", map |-> EmptyMap]
    ELSE IF ~into_treesitter_language(parser_lang)
        THEN [kind |-> "panic", map |-> EmptyMap]
    ELSE IF engine.fails
        THEN [kind |-> "panic", map |-> EmptyMap]
    ELSE [kind |-> "Ok",
          map |-> MapOf(filename,
                    [i \in 1..Len(engine.captures) |->
                        <<engine.captures[i].row + 1, engine.captures[i].text>>])]

\* HashMap::extend: every (key, value) of result is inserted, and an insert
\* under a key already present replaces the value.
extend(map, result) ==
    [f \in DOMAIN map \cup DOMAIN result |->
        IF f \in DOMAIN result THEN result[f] ELSE map[f]]

(***************************************************************************)
(* The file system.  A node is the sequence of names from the root down to *)
(* it; the root is <<>>.  A layout is a set of nodes closed under parent.  *)
(***************************************************************************)
N_build == <<"build">>
N_src == <<"src">>
N_x_c == <<"x", ".", "c">>
N_a_py == <<"a", ".", "py">>
N_a_rs == <<"a", ".", "rs">>
N_c == <<"c">>
N_rs == <<"rs">>

UniverseDirs == { <<N_build>>, <<N_src>>, <<N_src, N_build>>, <<N_x_c>> }

UniverseFiles == { <<N_build, N_a_py>>, <<N_src, N_build, N_a_rs>>,
                   <<N_src, N_c>>, <<N_x_c, N_rs>> }

Parent(n) == SubSeq(n, 1, Len(n) - 1)

Name(n) == n[Len(n)]

Layouts ==
    {S \in SUBSET (UniverseDirs \cup UniverseFiles) :
        /\ Cardinality(S) <= MaxNodes
        /\ \A n \in S : Len(n) > 1 => Parent(n) \in S}

DirRoots == { <<".">>, <<".", "/">>, <<"proj">>, <<"/", "w">> }

FileRoots == { <<"m", ".", "py">>, <<"c">> }

\* the values of --ignore tried
IgnoreArgs ==
    { <<>>,
      << <<"build">> >>,
      << <<"src", "/", "build">> >>,
      << <<"/", "w", "/", "build">> >>,
      << <<"/", "w">> >>,
      << <<".", "/">> >>,
      << <<"proj", "/", "build">>, <<".", "/", "src", "/", "c">> >> }

MainKey == <<"k">>

\* what a file of the tree may hold when a strategy opens it
MainFiles ==
    { [readable |-> TRUE, bytes |-> <<"a", NL, "k", "a", NL>>],
      [readable |-> TRUE, bytes |-> <<"a", NL>>],
      [readable |-> FALSE, bytes |-> <<>>] }

\* what the syntax engine may do with a file it is given
Engines ==
    { [fails |-> FALSE, captures |-> <<>>],
      [fails |-> FALSE, captures |-> << [row |-> 0, text |-> MainKey] >>],
      [fails |-> TRUE, captures |-> <<>>] }

\* Path::is_dir
is_dir(node) ==
    IF node = <<>> THEN fs.kind = "dir" ELSE node \in fs.nodes \cap UniverseDirs

\* the entries read_dir yields for a directory
Children(node) == {n \in fs.nodes : Len(n) = Len(node) + 1 /\ Parent(n) = node}

(***************************************************************************)
(* SearchCode::scan_dir.  A frame of `stack` is a call of scan_dir that is *)
(* inside its for loop: the directory's path, its node and the entries of  *)
(* read_dir not yet visited (read_dir's order is the file system's).       *)
(***************************************************************************)
\* scan_dir(dirname) from its first line up to the for loop: the variables
\* it leaves.  readable: whether read_dir succeeds.
scan_dir_call(dirname, node, stk, readable) ==
    IF is_ignore(dirname)
    THEN [pathes |-> pathes, stack |-> stk, read_dirs |-> read_dirs, panic |-> FALSE]
    ELSE IF is_dir(node)
    THEN IF readable
         THEN [pathes |-> pathes,
               stack |-> Append(stk, [dirname |-> dirname, node |-> node,
                                      todo |-> Children(node)]),
               read_dirs |-> read_dirs \cup {dirname},
               panic |-> FALSE]
         ELSE [pathes |-> pathes, stack |-> stk, read_dirs |-> read_dirs,
               panic |-> TRUE]
    ELSE [pathes |-> Append(pathes, dirname), stack |-> stk,
          read_dirs |-> read_dirs, panic |-> FALSE]

Top == stack[Len(stack)]

\* one iteration of the for loop over read_dir(dirname)
scan_dir_entry ==
    /\ pc = "scan_dir"
    /\ stack # <<>>
    /\ Top.todo # {}
    /\ \E child \in Top.todo :
        LET path == Join(Top.dirname, Name(child))
            stk == [stack EXCEPT ![Len(stack)].todo = @ \ {child}]
        IN  IF is_ignore(path)
            THEN /\ stack' = stk
                 /\ UNCHANGED <<pathes, read_dirs, pc>>
            ELSE IF is_dir(child)
            THEN \E readable \in BOOLEAN :
                    LET r == scan_dir_call(path, child, stk, readable)
                    IN  /\ pathes' = r.pathes
                        /\ stack' = r.stack
                        /\ read_dirs' = r.read_dirs
                        /\ pc' = IF r.panic THEN "panic" ELSE pc
            ELSE /\ pathes' = Append(pathes, path)
                 /\ stack' = stk
                 /\ UNCHANGED <<read_dirs, pc>>
    /\ UNCHANGED <<fs, args, dir_and_files, lang, idx, found, calls, skipped>>
    /\ UNCHANGED <<ignVars, lineVars, mergeVars>>

\* the for loop of a scan_dir call is over: the call returns
scan_dir_return ==
    /\ pc = "scan_dir"
    /\ stack # <<>>
    /\ Top.todo = {}
    /\ stack' = SubSeq(stack, 1, Len(stack) - 1)
    /\ UNCHANGED <<fs, args, dir_and_files, lang, pathes, idx, found, pc, calls,
                   skipped, read_dirs>>
    /\ UNCHANGED <<ignVars, lineVars, mergeVars>>

(***************************************************************************)
(* SearchCode::walk_dir and main.                                          *)
(***************************************************************************)
OpName == IF args.is_symbol THEN "get_symbols" ELSE "find_key_file"

\* every value op(path, key, &mut self.parser) may return
OpResults(path) ==
    IF args.is_symbol
    THEN {get_symbols(path, args.key_to_search, lang, f, e) :
            f \in MainFiles, e \in Engines}
    ELSE {find_key_file(path, args.key_to_search, f) : f \in MainFiles}

LastSlashSegment(path) ==
    LET ss == {i \in 1..Len(path) : path[i] = Slash}
    IN  IF ss = {} THEN path ELSE SubSeq(path, Max(ss) + 1, Len(path))

\* the extension taken from the file name instead of the whole path
extension_of_file_name(path) == LastDotSegment(LastSlashSegment(path))

\* let extension = path.split('.').last().unwrap();
extension_of(path) == LastDotSegment(path)

\* the gate without its test for Lang::Any
gate_skips_any_too(l, extension) == ~contains(valid_extensions(l), extension)

\* self.lang != Lang::Any && !self.lang.valid_extensions().contains(&extension)
gate_skips(l, extension) ==
    l # "Any" /\ ~contains(valid_extensions(l), extension)

\* a loop that does not wait for scan_dir
scan_dir_may_be_running == TRUE

\* self.scan_dir(dirname) has returned to walk_dir
scan_dir_returned == stack = <<>>

\* main, root a directory: walk_dir starts and calls scan_dir(dirname)
Main_walk_dir ==
    /\ pc = "main"
    /\ fs.kind = "dir"
    /\ found' = EmptyMap
    /\ \E readable \in BOOLEAN :
        LET r == scan_dir_call(args.path, <<>>, <<>>, readable)
        IN  /\ pathes' = r.pathes
            /\ stack' = r.stack
            /\ read_dirs' = r.read_dirs
            /\ pc' = IF r.panic THEN "panic" ELSE "scan_dir"
    /\ UNCHANGED <<fs, args, dir_and_files, lang, idx, calls, skipped>>
    /\ UNCHANGED <<ignVars, lineVars, mergeVars>>

\* walk_dir calling scan_dir(dirname) a second time before its loop
walk_dir_scanned_twice ==
    /\ pc = "scan_dir"
    /\ stack = <<>>
    /\ IF idx = 0
       THEN LET r == scan_dir_call(args.path, <<>>, <<>>, TRUE)
            IN  /\ pathes' = r.pathes
                /\ stack' = r.stack
                /\ read_dirs' = r.read_dirs
                /\ pc' = pc
       ELSE /\ pc' = "for"
            /\ UNCHANGED <<pathes, stack, read_dirs>>
    /\ idx' = 1
    /\ UNCHANGED <<fs, args, dir_and_files, lang, found, calls, skipped>>
    /\ UNCHANGED <<ignVars, lineVars, mergeVars>>

\* scan_dir is back: the progress bar is set up and the for loop starts
walk_dir_scanned ==
    /\ pc = "scan_dir"
    /\ scan_dir_returned
    /\ pc' = "for"
    /\ idx' = 1
    /\ UNCHANGED <<fs, args, dir_and_files, lang, pathes, stack, found, calls,
                   skipped, read_dirs>>
    /\ UNCHANGED <<ignVars, lineVars, mergeVars>>

\* an iteration of `for path in &self.pathes` that the gate ends (continue)
walk_dir_continue ==
    /\ pc = "for"
    /\ idx <= Len(pathes)
    /\ gate_skips(lang, extension_of(pathes[idx]))
    /\ skipped' = Append(skipped, pathes[idx])
    /\ idx' = idx + 1
    /\ UNCHANGED <<fs, args, dir_and_files, lang, pathes, stack, found, pc, calls,
                   read_dirs>>
    /\ UNCHANGED <<ignVars, lineVars, mergeVars>>

\* an iteration that calls op and merges its result: op(..)? ; found.extend
walk_dir_op ==
    /\ pc = "for"
    /\ idx <= Len(pathes)
    /\ ~gate_skips(lang, extension_of(pathes[idx]))
    /\ calls' = Append(calls, [op |-> OpName, path |-> pathes[idx]])
    /\ \E r \in OpResults(pathes[idx]) :
        IF r.kind = "Ok"
        THEN /\ found' = extend(found, r.map)
             /\ idx' = idx + 1
             /\ pc' = pc
        ELSE \* a panic of op, or Err returned by `?` into main's expect
             /\ pc' = "panic"
             /\ UNCHANGED <<found, idx>>
    /\ UNCHANGED <<fs, args, dir_and_files, lang, pathes, stack, skipped, read_dirs>>
    /\ UNCHANGED <<ignVars, lineVars, mergeVars>>

\* the loop is over: Ok(found), which main prints
walk_dir_finish ==
    /\ pc = "for"
    /\ idx > Len(pathes)
    /\ pc' = "exit"
    /\ UNCHANGED <<fs, args, dir_and_files, lang, pathes, stack, idx, found, calls,
                   skipped, read_dirs>>
    /\ UNCHANGED <<ignVars, lineVars, mergeVars>>

\* main, root not a directory: the strategy is called on args.path itself
Main_direct ==
    /\ pc = "main"
    /\ fs.kind # "dir"
    /\ calls' = Append(calls, [op |-> OpName, path |-> args.path])
    /\ \E r \in OpResults(args.path) :
        IF r.kind = "Ok"
        THEN found' = r.map /\ pc' = "exit"
        ELSE found' = found /\ pc' = "panic"
    /\ UNCHANGED <<fs, args, dir_and_files, lang, pathes, stack, idx, skipped,
                   read_dirs>>
    /\ UNCHANGED <<ignVars, lineVars, mergeVars>>

\* the variables of the other specifications, at rest
MainIdle ==
    /\ fs = [kind |-> "file", nodes |-> {}]
    /\ args = [path |-> <<>>, key_to_search |-> <<>>, lang |-> "Any",
               is_symbol |-> FALSE, ignore |-> <<>>]
    /\ lang = "Any"
    /\ pathes = <<>>
    /\ stack = <<>>
    /\ idx = 0
    /\ found = EmptyMap
    /\ calls = <<>>
    /\ skipped = <<>>
    /\ read_dirs = {}

IgnIdle == api_ops = <<>>

LineIdle ==
    /\ content = <<>>
    /\ key = <<>>
    /\ ls = [kind |-> "none", map |-> EmptyMap]

MergeIdle ==
    /\ acc = EmptyMap
    /\ partial = EmptyMap

\* main up to SearchCode::build: the arguments, the ignore list prepared
\* (set_ignores, ignore_git, relative_dir_fix), the SearchCode built
Init ==
    /\ fs \in {[kind |-> "dir", nodes |-> S] : S \in Layouts}
              \cup {[kind |-> "file", nodes |-> {}]}
    /\ args \in [path : IF fs.kind = "dir" THEN DirRoots ELSE FileRoots,
                 key_to_search : {MainKey},
                 lang : {obtain_lang(id) : id \in LangIds},
                 is_symbol : BOOLEAN,
                 ignore : IgnoreArgs]
    /\ dir_and_files = relative_dir_fix(ignore_git(set_ignores(<<>>, args.ignore)))
    /\ lang = args.lang
    /\ pathes = <<>>
    /\ stack = <<>>
    /\ idx = 0
    /\ found = EmptyMap
    /\ pc = "main"
    /\ calls = <<>>
    /\ skipped = <<>>
    /\ read_dirs = {}
    /\ IgnIdle
    /\ LineIdle
    /\ MergeIdle

Next ==
    \/ Main_walk_dir
    \/ scan_dir_entry
    \/ scan_dir_return
    \/ walk_dir_scanned
    \/ walk_dir_continue
    \/ walk_dir_op
    \/ walk_dir_finish
    \/ Main_direct

Spec == Init /\ [][Next]_vars

(***************************************************************************)
(* IgnoreDir as a library type: new, then its operations in any order.     *)
(***************************************************************************)
\* the entries given to set_ignores
IgnoreEntries ==
    { <<"build">>, <<".", "/", "build">>, <<"/", "w">>, <<".">>, <<".", ".">>,
      <<".", "git">>, <<>> }

IgnoreDir_new ==
    /\ dir_and_files = <<>>
    /\ api_ops = <<>>
    /\ pc = "ignore_dir"

IgnoreDir_set_ignores ==
    /\ pc = "ignore_dir"
    /\ Len(api_ops) < MaxApiOps
    /\ \E v \in SeqsUpTo(IgnoreEntries, MaxEntries) :
        dir_and_files' = set_ignores(dir_and_files, v)
    /\ api_ops' = Append(api_ops, "set_ignores")
    /\ UNCHANGED <<pc, mainVars, lineVars, mergeVars>>

IgnoreDir_ignore_git ==
    /\ pc = "ignore_dir"
    /\ Len(api_ops) < MaxApiOps
    /\ dir_and_files' = ignore_git(dir_and_files)
    /\ api_ops' = Append(api_ops, "ignore_git")
    /\ UNCHANGED <<pc, mainVars, lineVars, mergeVars>>

IgnoreDir_relative_dir_fix ==
    /\ pc = "ignore_dir"
    /\ Len(api_ops) < MaxApiOps
    /\ dir_and_files' = relative_dir_fix(dir_and_files)
    /\ api_ops' = Append(api_ops, "relative_dir_fix")
    /\ UNCHANGED <<pc, mainVars, lineVars, mergeVars>>

InitIgnore == IgnoreDir_new /\ MainIdle /\ LineIdle /\ MergeIdle

NextIgnore ==
    \/ IgnoreDir_set_ignores
    \/ IgnoreDir_ignore_git
    \/ IgnoreDir_relative_dir_fix

SpecIgnore == InitIgnore /\ [][NextIgnore]_vars

(***************************************************************************)
(* find_key_file on its own: any file, any key.                            *)
(***************************************************************************)
Bytes == {"k", "K", NL, CR, BAD}

KeyChars == {"k", "K"}

LineFile == <<"f", ".", "rs">>

InitLine ==
    /\ content \in SeqsUpTo(Bytes, MaxContentLen)
    /\ key \in SeqsUpTo(KeyChars, MaxKeyLen)
    /\ ls = [kind |-> "none", map |-> EmptyMap]
    /\ pc = "find_key_file"
    /\ dir_and_files = <<>>
    /\ MainIdle /\ IgnIdle /\ MergeIdle

Line_find_key_file ==
    /\ pc = "find_key_file"
    /\ \E readable \in BOOLEAN :
        ls' = find_key_file(LineFile, key, [readable |-> readable, bytes |-> content])
    /\ pc' = "find_key_file_done"
    /\ UNCHANGED <<content, key, dir_and_files>>
    /\ UNCHANGED <<mainVars, ignVars, mergeVars>>

NextLine == Line_find_key_file

SpecLine == InitLine /\ [][NextLine]_vars

(***************************************************************************)
(* found.extend(result) on its own: any accumulator, any partial result.   *)
(***************************************************************************)
MergeNames == { <<"f", ".", "rs">>, <<"g", ".", "rs">> }

MergeMatches == { <<1, <<"k">> >>, <<2, <<"k", "k">> >> }

\* the FindLines values over names: each name absent or with a list
FindLinesOver(names) ==
    UNION { [S -> SeqsUpTo(MergeMatches, MaxMatches) \ {<<>>}] : S \in SUBSET names }

InitMerge ==
    /\ acc \in FindLinesOver(MergeNames)
    /\ partial \in FindLinesOver(MergeNames)
    /\ pc = "extend"
    /\ dir_and_files = <<>>
    /\ MainIdle /\ IgnIdle /\ LineIdle

Merge_extend ==
    /\ pc = "extend"
    /\ acc' = extend(acc, partial)
    /\ pc' = "extended"
    /\ UNCHANGED <<partial, dir_and_files>>
    /\ UNCHANGED <<mainVars, ignVars, lineVars>>

NextMerge == Merge_extend

SpecMerge == InitMerge /\ [][NextMerge]_vars

(***************************************************************************)
(* The claims.                                                             *)
(***************************************************************************)
\* the path string of a node: the root's string, then the names below it
RECURSIVE NodePath(_)
NodePath(n) == IF n = <<>> THEN args.path ELSE Join(NodePath(Parent(n)), Name(n))

\* root, ..., n: every node on the chain from the root down to n
Chain(n) == {SubSeq(n, 1, m) : m \in 0..Len(n)}

IgnoreSet == {dir_and_files[i] : i \in 1..Len(dir_and_files)}

FilesOf == fs.nodes \cap UniverseFiles

\* the files whose chain holds no ignored path string
Unignored == {f \in FilesOf : \A q \in Chain(f) : NodePath(q) \notin IgnoreSet}

\* scan_dir(root) has returned to walk_dir
ScanOver == fs.kind = "dir" /\ pc \in {"for", "exit"}

CallPaths == [i \in 1..Len(calls) |-> calls[i].path]

\* C1: a scan of a directory root appends the path of a file if and only if
\* no node from the root down to the file has a path string equal to an
\* ignore entry; nothing is appended that is no such file, at any moment of
\* the scan; and when the root itself is ignored the accumulator stays empty
\* and read_dir is never called.
C1_ScanAppendsExactlyUnignored ==
    fs.kind = "dir" =>
        /\ Range(pathes) \subseteq {NodePath(f) : f \in Unignored}
        /\ ScanOver => Range(pathes) = {NodePath(f) : f \in Unignored}
        /\ args.path \in IgnoreSet => pathes = <<>> /\ read_dirs = {}
        /\ \A f \in FilesOf \ Unignored :
             NodePath(Parent(f)) \in read_dirs => NodePath(f) \in IgnoreSet

\* C1 witness: a finished scan that kept one file and pruned another whose
\* own path is not ignored but whose directory is.
C1_Witness ==
    /\ ScanOver
    /\ pathes # <<>>
    /\ \E f \in FilesOf :
        /\ NodePath(f) \notin IgnoreSet
        /\ NodePath(Parent(f)) \in IgnoreSet
        /\ NodePath(f) \notin Range(pathes)

\* a finished scan of a root that is itself ignored, over a non-empty tree
C1_RootIgnoredReached ==
    ScanOver /\ args.path \in IgnoreSet /\ FilesOf # {}

\* C2: with --ignore build, for every root, a finished scan holds no file
\* under root/build and holds every file under root/src/build.
C2_BuildExcludedUnderEveryRoot ==
    (ScanOver /\ args.ignore = << <<"build">> >>) =>
        /\ \A f \in FilesOf : f[1] = N_build => NodePath(f) \notin Range(pathes)
        /\ \A f \in FilesOf :
             (Len(f) >= 2 /\ f[1] = N_src /\ f[2] = N_build)
                => NodePath(f) \in Range(pathes)

\* C2, the half that holds: files under root/src/build are never excluded by
\* --ignore build.
C2_DeeperBuildKept ==
    (ScanOver /\ args.ignore = << <<"build">> >>) =>
        \A f \in FilesOf :
            (Len(f) >= 2 /\ f[1] = N_src /\ f[2] = N_build)
                => NodePath(f) \in Range(pathes)

\* C3: a merge leaves, under every filename of the partial, the
\* accumulator's previous list followed by the partial's list, and leaves
\* the entries of every other filename unchanged.
C3_MergeConcatenates ==
    [][(pc = "extend" /\ pc' = "extended") =>
        /\ DOMAIN acc' = DOMAIN acc \cup DOMAIN partial
        /\ \A f \in DOMAIN partial :
             acc'[f] = (IF f \in DOMAIN acc THEN acc[f] ELSE <<>>) \o partial[f]
        /\ \A f \in DOMAIN acc \ DOMAIN partial : acc'[f] = acc[f]]_vars

(***************************************************************************)
(* C4: line search.  The lines of a file, told from the positions of its   *)
(* newlines: line i runs from after newline i-1 up to newline i (or to the *)
(* end of the file for a last line without one); its text leaves out the   *)
(* terminator, which is "\n" or "\r\n".                                    *)
(***************************************************************************)
NewlinesAt == {i \in 1..Len(content) : content[i] = NL}

LineCount ==
    Cardinality(NewlinesAt)
        + (IF content # <<>> /\ content[Len(content)] # NL THEN 1 ELSE 0)

\* the position of the i-th newline; past the end when there is none
NthNewline(i) ==
    IF i = 0 THEN 0
    ELSE IF i > Cardinality(NewlinesAt) THEN Len(content) + 1
    ELSE CHOOSE p \in NewlinesAt : Cardinality({q \in NewlinesAt : q <= p}) = i

LineText(i) ==
    LET from == NthNewline(i - 1) + 1
        to == NthNewline(i) - 1
        crlf == /\ i <= Cardinality(NewlinesAt)
                /\ to >= from
                /\ content[to] = CR
    IN  SubSeq(content, from, IF crlf THEN to - 1 ELSE to)

HasKey(text) ==
    \E a \in 0..Len(text) : \E b \in a..Len(text) :
        b - a = Len(key) /\ \A j \in 1..Len(key) : text[a + j] = key[j]

MatchingLines == {i \in 1..LineCount : HasKey(LineText(i))}

\* a readable text file: it opened, and every byte is valid UTF-8
ReadAsText == ls.kind = "Ok" /\ BAD \notin Range(content)

\* C4: on a readable text file find_key_file returns, under the filename,
\* exactly the pairs <<i, text of line i>> of the lines that contain the key,
\* i counted from 1, in increasing order of i; when no line contains the key
\* the map has no entry at all, and no entry is ever an empty list.
C4_LineSearchExact ==
    (pc = "find_key_file_done" /\ ReadAsText) =>
        /\ DOMAIN ls.map = (IF MatchingLines = {} THEN {} ELSE {LineFile})
        /\ \A f \in DOMAIN ls.map :
            LET v == ls.map[f]
            IN  /\ v # <<>>
                /\ {v[j][1] : j \in 1..Len(v)} = MatchingLines
                /\ \A j \in 1..Len(v) : v[j][1] >= 1 /\ v[j][2] = LineText(v[j][1])
                /\ \A j \in 1..Len(v) : \A h \in 1..Len(v) : j < h => v[j][1] < v[h][1]

\* C4 witness: a file of three lines or more in which a later line matches
\* and an earlier one does not, and a line that differs from the key only in
\* case is left out.
C4_Witness ==
    /\ pc = "find_key_file_done"
    /\ ReadAsText
    /\ key # <<>>
    /\ LineCount >= 3
    /\ 1 \notin MatchingLines
    /\ \E i \in MatchingLines : i >= 2
    /\ \E i \in 1..LineCount : LineText(i) = <<"K">> /\ key = <<"k">>
    /\ LineFile \in DOMAIN ls.map

\* C5: symbol search with language Any never ends in a normal result.
C5_SymbolAnyFailsLoudly ==
    (args.is_symbol /\ lang = "Any") => pc # "exit"

\* C5, the half that holds: once get_symbols has been called with language
\* Any the run never ends normally.
C5_SymbolAnyCalledFails ==
    (args.is_symbol /\ lang = "Any" /\ calls # <<>>) => pc = "panic"

RegisteredIn(l, path) ==
    LET dots == {i \in 1..Len(path) : path[i] = Dot}
        ext == IF dots = {} THEN path
               ELSE [j \in 1..(Len(path) - Max(dots)) |-> path[Max(dots) + j]]
    IN  ext \in Range(valid_extensions(l))

\* C6: when the language is not Any, every path handed to a strategy has an
\* extension of that language.
C6_DispatchedHaveLanguageExtension ==
    lang # "Any" => \A i \in 1..Len(calls) : RegisteredIn(lang, calls[i].path)

\* C6, the half that holds: the same for the dispatches of walk_dir.
C6_WalkDirDispatchedHaveLanguageExtension ==
    (lang # "Any" /\ fs.kind = "dir") =>
        \A i \in 1..Len(calls) : RegisteredIn(lang, calls[i].path)

\* C7: when the language is Any the gate skips nothing: the paths handed to
\* the strategy are the accumulator's paths, in order, up to the loop's
\* position, and all of them when walk_dir returns.
C7_AnySkipsNothing ==
    (lang = "Any" /\ fs.kind = "dir") =>
        /\ skipped = <<>>
        /\ pc = "for" => CallPaths = SubSeq(pathes, 1, idx - 1)
        /\ pc = "exit" => CallPaths = pathes
        /\ (pc = "panic" /\ calls # <<>>) => CallPaths = SubSeq(pathes, 1, idx)

\* C7 witness: a finished run under Any that dispatched two files or more,
\* one of them with an extension no language registers.
C7_Witness ==
    /\ lang = "Any"
    /\ fs.kind = "dir"
    /\ pc = "exit"
    /\ Len(calls) >= 2
    /\ \E i \in 1..Len(calls) :
        \A l \in Langs : ~RegisteredIn(l, calls[i].path)

IsRelativeEntry(v) == v = <<>> \/ v[1] # "/"

HasDotSlash(v) == Len(v) >= 2 /\ v[1] = "." /\ v[2] = "/"

LastOp(n) == Len(api_ops) >= n /\ api_ops[Len(api_ops) - n + 1] = "relative_dir_fix"

\* C8: a call of relative_dir_fix keeps the number and the order of the
\* entries, puts "./" before exactly the entries that are relative and do
\* not start with "./", leaves the others as they are, and changes nothing
\* when the call before it was relative_dir_fix too.
C8_RelativeDirFix ==
    [][(api_ops' = Append(api_ops, "relative_dir_fix")) =>
        /\ Len(dir_and_files') = Len(dir_and_files)
        /\ \A i \in 1..Len(dir_and_files) :
            LET old == dir_and_files[i]
                new == dir_and_files'[i]
            IN  IF IsRelativeEntry(old) /\ ~HasDotSlash(old)
                THEN new = <<".", "/">> \o old
                ELSE new = old
        /\ LastOp(1) => dir_and_files' = dir_and_files]_vars

\* C8 witness: relative_dir_fix called twice in a row on a list that holds
\* an entry it prefixed, an absolute entry and an entry that had its "./".
C8_Witness ==
    /\ LastOp(1)
    /\ LastOp(2)
    /\ \E i \in 1..Len(dir_and_files) : dir_and_files[i] = <<".", "/", ".", "git">>
    /\ \E i \in 1..Len(dir_and_files) : dir_and_files[i] = <<"/", "w">>
    /\ \E i \in 1..Len(dir_and_files) : dir_and_files[i] = <<".", "/", "build">>

AllExtensions ==
    Range(CPP_EXTENSIONS) \cup Range(RUST_EXTENSIONS) \cup Range(PYTHON_EXTENSIONS)

AfterLastDot(path) ==
    LET dots == {i \in 1..Len(path) : path[i] = Dot}
    IN  IF dots = {} THEN path
        ELSE [j \in 1..(Len(path) - Max(dots)) |-> path[Max(dots) + j]]

\* the files of the tree whose name holds no "."
Dotless == {f \in FilesOf : Dot \notin Range(Name(f))}

\* C9: when a language other than Any is active, walk_dir dispatches no file
\* whose name holds no ".", and the text after the last "." of such a file's
\* path is no registered extension.
C9_DotlessNeverDispatched ==
    (lang # "Any" /\ fs.kind = "dir") =>
        \A f \in Dotless :
            /\ NodePath(f) \notin Range(CallPaths)
            /\ NodePath(f) \in Range(pathes) =>
                 AfterLastDot(NodePath(f)) \notin AllExtensions

\* C9 witness: a finished run under Cpp whose accumulator held a file named
\* "c", which the gate skipped.
C9_Witness ==
    /\ lang = "Cpp"
    /\ fs.kind = "dir"
    /\ pc = "exit"
    /\ \E f \in Dotless :
        /\ Name(f) = <<"c">>
        /\ NodePath(f) \in Range(skipped)

\* C10: no strategy is called while scan_dir is running, and once the first
\* strategy call of walk_dir has started the accumulator never changes.
C10_ScanBeforeSearch ==
    [][(fs.kind = "dir" /\ calls' # <<>>) =>
        /\ stack = <<>>
        /\ stack' = <<>>
        /\ pathes' = pathes]_vars

\* C10 witness: the second strategy call of a run whose scan read two
\* directories or more and collected two paths or more.
C10_Witness ==
    /\ fs.kind = "dir"
    /\ Len(calls) >= 2
    /\ Cardinality(read_dirs) >= 2
    /\ Len(pathes) >= 2

\* C11: in a run of walk_dir on a freshly built SearchCode over a directory
\* tree no path string is twice in the accumulator, no path is handed to the
\* strategy twice, and the entries of the result are filenames each
\* dispatched exactly once.
C11_NoPathTwice ==
    fs.kind = "dir" =>
        /\ \A i \in 1..Len(pathes) : \A j \in 1..Len(pathes) :
             pathes[i] = pathes[j] => i = j
        /\ \A i \in 1..Len(calls) : \A j \in 1..Len(calls) :
             calls[i].path = calls[j].path => i = j
        /\ \A f \in DOMAIN found :
             Cardinality({i \in 1..Len(calls) : calls[i].path = f}) = 1

\* C11 witness: a finished run over two directories or more whose
\* accumulator held two paths, both dispatched and both in the result.
C11_Witness ==
    /\ fs.kind = "dir"
    /\ pc = "exit"
    /\ Cardinality(read_dirs) >= 2
    /\ Len(pathes) >= 2
    /\ Len(calls) >= 2
    /\ Cardinality(DOMAIN found) >= 2

====
